---- MODULE Spec2Model ----
(***************************************************************************)
(* Rustneedle core library (src/lib.rs): the Framework's hook registry,    *)
(* ordered name list and module registry, the HostMgr slots, and the       *)
(* operations hook_up, load_hooks_from and try_run_hook.                   *)
(***************************************************************************)
EXTENDS Integers, Sequences, FiniteSets, TLC

\* ------------------------------------------------------------------ bounds
\* try_run_hook is not asked for another module once the registry holds this many
MaxModules == 3
\* longest Vec<(&'static str, Hook)> a library's load() returns
MaxBatch == 3
\* how many suffixes the keys left in the module registry by other hooks carry
MaxSuffix == 2
\* how many hosts a NetPairList holds at most
MaxHosts == 3
\* how many frames are captured
MaxFrames == 3

\* ------------------------------------------------------------------ inputs
\* names a caller registers hooks under (&'static str)
HookNames == {"scan", "scan_0"}

\* names a caller passes to try_run_hook: the above and one that is never bound
CallNames == HookNames \cup {"missing"}

\* enum Hook { Framework(fn ..), HostMgr(fn ..) }: the variant and the function pointer
Hook == [scope : {"Framework", "HostMgr"}, fn : {"f", "g"}]

\* the hook the caller of hook_up registers
CoreHook == [scope |-> "Framework", fn |-> "f"]

\* the hook a dynamic library's load() returns at position i of its Vec
LibHook(i) == [scope |-> IF i % 2 = 1 THEN "HostMgr" ELSE "Framework", fn |-> "g"]

\* no hook was called
NoHook == [scope |-> "-", fn |-> "-"]
\* the operation took no library
NoLib == [resolves |-> FALSE, error |-> "", entries |-> <<>>]
\* the operation called no hook function
NoCall == [out |-> "-", eff |-> "-", msg |-> ""]

\* KnownPair::new(ip, hw)
KnownPair(ip, hw) == [proto |-> ip, hardw |-> hw]

GatewayPair == KnownPair("10.0.0.1", "AA:AA:AA:AA:AA:AA")
MyselfPair == KnownPair("10.0.0.5", "BB:BB:BB:BB:BB:BB")
\* the pair a hook stores into the gateway slot when it writes it
OtherPair == KnownPair("10.0.0.254", "CC:CC:CC:CC:CC:CC")

\* NetPairList::new()
NetPairListNew == [hosts |-> <<>>, macs |-> <<>>]

\* HostMgr::new(gate, me)
HostMgrNew(gate, me) == [gateway |-> gate, myself |-> me, nethosts |-> NetPairListNew]

\* the message a failing hook returns
HookError == "scan: boom"
\* the message of the error lib.get::<HookLoader>(b"load") fails with
LibError == "undefined symbol: load"

\* ------------------------------------------------------------------ results
Ok(b) == [tag |-> "Ok", val |-> b, errs |-> <<>>]
Err(msgs) == [tag |-> "Err", val |-> FALSE, errs |-> msgs]

\* ------------------------------------------------------------------ state
VARIABLES
    hosts,      \* Framework.hosts: the three HostMgr slots
    names,      \* Framework.names: Vec<&'static str>
    hooks,      \* Framework.hooks: HashMap<String, Hook>
    modules,    \* Framework.modules: HashMap<String, Module>
    spawned,    \* how many worker threads hooks have spawned so far
    last,       \* the last operation, its arguments and what it returned
    search,     \* one run of try_run_hook's key loop, step by step
    lookup,     \* a NetPairList and the last NetPairList::get on it
    mgr,        \* the Arc<Mutex<..>> cells of HostMgr and the threads using them
    capture     \* the modules' PackFilter channels and the frames routed to them

\* the variables the Framework's operations leave alone
others == <<search, lookup, mgr, capture>>

vars == <<hosts, names, hooks, modules, spawned, last, search, lookup, mgr, capture>>

\* HashMap::new()
EmptyMap == <<>>

\* HashMap::contains_key
contains_key(map, k) == k \in DOMAIN map

\* HashMap::insert
insert(map, k, v) == [x \in DOMAIN map \cup {k} |-> IF x = k THEN v ELSE map[x]]

\* Vec::push
push(vec, x) == Append(vec, x)

\* Module::new(handle, killer, packet_sender, filter): the worker thread the
\* JoinHandle joins is running and nothing was sent on killer
ModuleNew(handle) == [handle |-> handle, worker |-> "Running", killer |-> 0]

\* what the last operation was, the name, library and hook behaviour it was given,
\* the hook it was given (hook_up) or called (try_run_hook), and what it returned
Called(op, name, lib, call, hook, res) ==
    [op |-> op, name |-> name, lib |-> lib, call |-> call, hook |-> hook, res |-> res]

\* Framework::new(hostmgr)
FrameworkNew ==
    /\ hosts = HostMgrNew(GatewayPair, MyselfPair)
    /\ names = <<>>
    /\ hooks = EmptyMap
    /\ modules = EmptyMap
    /\ spawned = 0
    /\ last = Called("new", "", NoLib, NoCall, NoHook, Ok(TRUE))

\* no key loop is running
NoSearch == [mods |-> EmptyMap, name |-> "", counter |-> 0, tried |-> <<>>, pc |-> "idle"]
\* no NetPairList::get was called
NoLookup == [list |-> NetPairListNew, op |-> "none", index |-> 0, got |-> <<>>, n |-> 0]
\* the fields of HostMgr
Slots == {"gateway", "myself", "nethosts"}
\* the threads that can own a handle: the main thread with the HostMgr given to the
\* Framework, the worker of a module, a hook invocation
Owners == {"main", "module", "hook"}

\* Arc::new(Mutex::new(value)): a cell nobody has locked, not poisoned
MutexNew(value) == [value |-> value, holders |-> {}, poisoned |-> FALSE]

\* an owner without any Arc
NoHandle == [s \in Slots |-> 0]

\* HostMgr::new(GatewayPair, MyselfPair) in the hands of the main thread: the three
\* cells, the cell each owner's handle points to per slot (0: none), the slot each
\* owner is blocked in lock() for, the owners that panicked, the pair last stored
\* in each slot, and whether some owner has asked for a slot while holding one
MgrNew ==
    LET h == HostMgrNew(GatewayPair, MyselfPair) IN
    [cells |-> <<MutexNew(h.gateway), MutexNew(h.myself), MutexNew(h.nethosts)>>,
     handles |-> [o \in Owners |->
                    IF o = "main"
                    THEN [gateway |-> 1, myself |-> 2, nethosts |-> 3]
                    ELSE NoHandle],
     waiting |-> [o \in Owners |-> "none"],
     panicked |-> {},
     wrote |-> [s \in Slots |-> h[s]],
     doubled |-> FALSE]
\* the variants of PackFilter
PackFilter == {"Closed", "Entire", "EtherFrame", "Payload"}
\* the keys of the running modules frames are routed to
Routed == {"m1", "m2", "m3"}

\* mpsc::channel(): nothing queued, the Receiver alive in the module's worker
ChannelNew == [queue |-> <<>>, open |-> TRUE]

\* no frame was captured: no module asks for frames
NoCapture ==
    [mods |-> [k \in Routed |-> [filter |-> "Closed", chan |-> ChannelNew]],
     frames |-> 0,
     blocked |-> FALSE]

Init ==
    /\ FrameworkNew
    /\ search = NoSearch
    /\ lookup = NoLookup
    /\ mgr = MgrNew
    /\ capture = NoCapture

\* ------------------------------------------------------------------ hook_up
\* hook_up without its contains_key test on the insert: a bound name is bound again
hook_up_rebinds(nm, hk, name, hook) ==
    [names |-> push(nm, name), hooks |-> insert(hk, name, hook),
     res |-> IF contains_key(hk, name) THEN Err(<<>>) ELSE Ok(TRUE)]

\* hook_up putting the new name in front of the list
hook_up_in_front(nm, hk, name, hook) ==
    IF ~contains_key(hk, name)
    THEN [names |-> <<name>> \o nm, hooks |-> insert(hk, name, hook), res |-> Ok(TRUE)]
    ELSE [names |-> nm, hooks |-> hk, res |-> Err(<<>>)]

\* Framework::hook_up(name, hook): the name list and the hook registry after the
\* call, and the Result<(), ()> it returns
hook_up(nm, hk, name, hook) ==
    IF ~contains_key(hk, name)
    THEN [names |-> push(nm, name), hooks |-> insert(hk, name, hook), res |-> Ok(TRUE)]
    ELSE [names |-> nm, hooks |-> hk, res |-> Err(<<>>)]

HookUp(name, hook) ==
    LET r == hook_up(names, hooks, name, hook) IN
    /\ names' = r.names
    /\ hooks' = r.hooks
    /\ last' = Called("hook_up", name, NoLib, NoCall, hook, r.res)
    /\ UNCHANGED <<hosts, modules, spawned, others>>

\* ------------------------------------------------------------------ load_hooks_from
\* format!("{} already bound", name)
already_bound(name) == name \o " already bound"

\* the Vec<(&'static str, Hook)> values load() returns
Batches ==
    UNION {{[i \in 1..n |-> [name |-> ns[i], hook |-> LibHook(i)]] : ns \in [1..n -> HookNames]}
           : n \in 0..MaxBatch}

\* a Library: whether lib.get::<HookLoader>(b"load") resolves, the error it gives
\* when it does not, and the hooks its loader returns (a library may hold hooks
\* and still export no symbol named load)
Libraries ==
    {[resolves |-> FALSE, error |-> LibError, entries |-> b] : b \in {c \in Batches : Len(c) <= 1}}
    \cup {[resolves |-> TRUE, error |-> "", entries |-> b] : b \in Batches}

\* the for loop leaving at the first entry hook_up refuses
RECURSIVE load_loop_stops(_, _, _, _)
load_loop_stops(nm, hk, entries, errors) ==
    IF entries = <<>>
    THEN [names |-> nm, hooks |-> hk, errors |-> errors]
    ELSE LET e == Head(entries)
             r == hook_up(nm, hk, e.name, e.hook)
         IN  IF r.res.tag = "Err"
             THEN [names |-> nm, hooks |-> hk, errors |-> push(errors, already_bound(e.name))]
             ELSE load_loop_stops(r.names, r.hooks, Tail(entries), errors)

\* the for loop of load_hooks_from over hooks.into_iter()
RECURSIVE load_loop(_, _, _, _)
load_loop(nm, hk, entries, errors) ==
    IF entries = <<>>
    THEN [names |-> nm, hooks |-> hk, errors |-> errors]
    ELSE LET e == Head(entries)
             r == hook_up(nm, hk, e.name, e.hook)
         IN  load_loop(r.names, r.hooks, Tail(entries),
                       IF r.res.tag = "Err"
                       THEN push(errors, already_bound(e.name))
                       ELSE errors)

\* load_hooks_from reporting the first collision only
load_hooks_from_first(nm, hk, lib) ==
    IF ~lib.resolves
    THEN [names |-> nm, hooks |-> hk, res |-> Err(<<lib.error>>)]
    ELSE LET r == load_loop(nm, hk, lib.entries, <<>>) IN
         [names |-> r.names, hooks |-> r.hooks,
          res |-> IF Len(r.errors) > 0 THEN Err(<<Head(r.errors)>>) ELSE Ok(TRUE)]

\* load_hooks_from taking a library without a load symbol for one without hooks
load_hooks_from_lenient(nm, hk, lib) ==
    LET r == load_loop(nm, hk, lib.entries, <<>>) IN
    [names |-> r.names, hooks |-> r.hooks,
     res |-> IF Len(r.errors) > 0 THEN Err(r.errors) ELSE Ok(TRUE)]

\* Framework::load_hooks_from(lib)
load_hooks_from(nm, hk, lib) ==
    IF ~lib.resolves
    THEN [names |-> nm, hooks |-> hk, res |-> Err(<<lib.error>>)]
    ELSE LET r == load_loop(nm, hk, lib.entries, <<>>) IN
         [names |-> r.names, hooks |-> r.hooks,
          res |-> IF Len(r.errors) > 0 THEN Err(r.errors) ELSE Ok(TRUE)]

LoadHooksFrom(lib) ==
    LET r == load_hooks_from(names, hooks, lib) IN
    /\ names' = r.names
    /\ hooks' = r.hooks
    /\ last' = Called("load_hooks_from", "", lib, NoCall, NoHook, r.res)
    /\ UNCHANGED <<hosts, modules, spawned, others>>

\* ------------------------------------------------------------------ try_run_hook
\* the candidate formatted without the counter
format_key_same(name, counter) == name

\* format!("{}_{}", name, counter)
format_key(name, counter) == name \o "_" \o ToString(counter)

\* the message without the name
no_such_hook_unnamed(name) == "No such hook"

\* format!("{}: No such hook", name)
no_such_hook(name) == name \o ": No such hook"

\* the key taken without the while loop
unused_key_unchecked(mods, name, counter) == name

\* the while loop of try_run_hook: the key the new module is inserted under
RECURSIVE unused_key(_, _, _)
unused_key(mods, name, counter) ==
    IF contains_key(mods, name)
    THEN unused_key(mods, format_key(name, counter), counter + 1)
    ELSE name

\* the call h(args, self) or h(args, &mut self.hosts): the hook function is plugin
\* code, so what it returns (call.out, call.msg) and whether it stores into the
\* gateway slot (call.eff) are inputs; a returned module joins a new worker thread
run_hook(name, hook, hm, nspawned, call) ==
    [hosts |-> IF call.eff = "write" THEN [hm EXCEPT !.gateway = OtherPair] ELSE hm,
     spawned |-> IF call.out = "module" THEN nspawned + 1 ELSE nspawned,
     ret |-> call.out,
     module |-> ModuleNew([hook |-> name, thread |-> nspawned + 1]),
     msg |-> call.msg]

\* try_run_hook putting the hook's name in front of the hook's message
try_run_hook_prefixes(hm, hk, mods, nspawned, name, call) ==
    IF contains_key(hk, name)
    THEN LET r == run_hook(name, hk[name], hm, nspawned, call) IN
         CASE r.ret = "module" ->
                [hosts |-> r.hosts, spawned |-> r.spawned, ran |-> hk[name],
                 modules |-> insert(mods, unused_key(mods, name, 0), r.module),
                 res |-> Ok(TRUE)]
           [] r.ret = "none" ->
                [hosts |-> r.hosts, spawned |-> r.spawned, ran |-> hk[name],
                 modules |-> mods, res |-> Ok(FALSE)]
           [] r.ret = "err" ->
                [hosts |-> r.hosts, spawned |-> r.spawned, ran |-> hk[name],
                 modules |-> mods, res |-> Err(<<name \o ": " \o r.msg>>)]
    ELSE [hosts |-> hm, spawned |-> nspawned, ran |-> NoHook, modules |-> mods,
          res |-> Err(<<no_such_hook(name)>>)]

\* try_run_hook reporting a started module whenever the hook succeeds
try_run_hook_always_true(hm, hk, mods, nspawned, name, call) ==
    IF contains_key(hk, name)
    THEN LET r == run_hook(name, hk[name], hm, nspawned, call) IN
         CASE r.ret = "module" ->
                [hosts |-> r.hosts, spawned |-> r.spawned, ran |-> hk[name],
                 modules |-> insert(mods, unused_key(mods, name, 0), r.module),
                 res |-> Ok(TRUE)]
           [] r.ret = "none" ->
                [hosts |-> r.hosts, spawned |-> r.spawned, ran |-> hk[name],
                 modules |-> mods, res |-> Ok(TRUE)]
           [] r.ret = "err" ->
                [hosts |-> r.hosts, spawned |-> r.spawned, ran |-> hk[name],
                 modules |-> mods, res |-> Err(<<r.msg>>)]
    ELSE [hosts |-> hm, spawned |-> nspawned, ran |-> NoHook, modules |-> mods,
          res |-> Err(<<no_such_hook(name)>>)]

\* Framework::try_run_hook(name, args): the fields it can change, the hook it
\* called and the Result<bool, String> it returns (args only travel to the hook,
\* whose behaviour is call)
try_run_hook(hm, hk, mods, nspawned, name, call) ==
    IF contains_key(hk, name)
    THEN LET r == run_hook(name, hk[name], hm, nspawned, call) IN
         CASE r.ret = "module" ->
                [hosts |-> r.hosts, spawned |-> r.spawned, ran |-> hk[name],
                 modules |-> insert(mods, unused_key(mods, name, 0), r.module),
                 res |-> Ok(TRUE)]
           [] r.ret = "none" ->
                [hosts |-> r.hosts, spawned |-> r.spawned, ran |-> hk[name],
                 modules |-> mods, res |-> Ok(FALSE)]
           [] r.ret = "err" ->
                [hosts |-> r.hosts, spawned |-> r.spawned, ran |-> hk[name],
                 modules |-> mods, res |-> Err(<<r.msg>>)]
    ELSE [hosts |-> hm, spawned |-> nspawned, ran |-> NoHook, modules |-> mods,
          res |-> Err(<<no_such_hook(name)>>)]

\* the hook functions' behaviours, whatever args they are handed: spawn a worker
\* and return its module, return nothing after reading the pairs or after storing
\* into the gateway slot, fail
Calls ==
    {[out |-> "module", eff |-> "read", msg |-> ""],
     [out |-> "none", eff |-> "read", msg |-> ""],
     [out |-> "none", eff |-> "write", msg |-> ""],
     [out |-> "err", eff |-> "read", msg |-> HookError]}

TryRunHook(name, call) ==
    LET r == try_run_hook(hosts, hooks, modules, spawned, name, call) IN
    /\ call.out = "module" => Cardinality(DOMAIN modules) < MaxModules
    /\ hosts' = r.hosts
    /\ modules' = r.modules
    /\ spawned' = r.spawned
    /\ last' = Called("try_run_hook", name, NoLib, call, r.ran, r.res)
    /\ UNCHANGED <<names, hooks, others>>

\* ------------------------------------------------------------------ the key loop
\* the keys hooks named like HookNames, or like one of their keys, can leave in
\* the module registry
RECURSIVE KeyUniverse(_)
KeyUniverse(d) ==
    IF d = 0
    THEN HookNames
    ELSE LET K == KeyUniverse(d - 1) IN
         K \cup {format_key(k, c) : k \in K, c \in 0..(d - 1)}

\* the subsets of S of at most n elements
RECURSIVE SubsetsUpTo(_, _)
SubsetsUpTo(S, n) ==
    IF n = 0
    THEN {{}}
    ELSE LET P == SubsetsUpTo(S, n - 1) IN P \cup {p \cup {x} : p \in P, x \in S}

\* the module registries try_run_hook can find when its hook returns a module
Registries ==
    {[k \in S |-> ModuleNew([hook |-> k, thread |-> 0])] :
        S \in SubsetsUpTo(KeyUniverse(MaxSuffix), MaxModules)}

\* try_run_hook has the module of hook name in hand: let mut counter = 0
KeyInit ==
    /\ FrameworkNew
    /\ search \in {[mods |-> m, name |-> n, counter |-> 0, tried |-> <<>>, pc |-> "while"] :
                      m \in Registries, n \in HookNames}
    /\ lookup = NoLookup
    /\ mgr = MgrNew
    /\ capture = NoCapture

\* one test of while self.modules.contains_key(&name), and the body when it holds
KeyWhile ==
    /\ search.pc = "while"
    /\ search' =
          IF contains_key(search.mods, search.name)
          THEN [search EXCEPT !.tried = push(@, search.name),
                              !.name = format_key(search.name, search.counter),
                              !.counter = @ + 1]
          ELSE [search EXCEPT !.tried = push(@, search.name), !.pc = "insert"]
    /\ UNCHANGED <<hosts, names, hooks, modules, spawned, last, lookup, mgr, capture>>

\* self.modules.insert(name, module)
KeyInsert ==
    /\ search.pc = "insert"
    /\ search' = [search EXCEPT
                    !.mods = insert(@, search.name,
                                    ModuleNew([hook |-> search.tried[1], thread |-> 1])),
                    !.pc = "done"]
    /\ UNCHANGED <<hosts, names, hooks, modules, spawned, last, lookup, mgr, capture>>

KeyNext == KeyWhile \/ KeyInsert

\* the key loop of one try_run_hook call, from every registry it can find
KeySpec == KeyInit /\ [][KeyNext]_vars

\* ------------------------------------------------------------------ NetPairList
\* Option<&Ipv4Addr>
Some(v) == <<v>>
None == <<>>

\* the addresses of the hosts of the network
Ipv4Addrs == {"10.0.0.2", "10.0.0.3", "10.0.0.4"}

RECURSIVE SeqsUpTo(_, _)
\* the sequences over S of length at most n
SeqsUpTo(S, n) ==
    IF n = 0
    THEN {<<>>}
    ELSE LET P == SeqsUpTo(S, n - 1) IN P \cup {Append(p, x) : p \in P, x \in S}

\* the lists of hosts: NetPairList { hosts, macs }, no mac known
NetPairLists == {[hosts |-> h, macs |-> <<>>] : h \in SeqsUpTo(Ipv4Addrs, MaxHosts)}

\* Vec::get counts from one instead of zero
get_from_one(list, index) ==
    IF index >= 1 /\ index <= Len(list.hosts) THEN Some(list.hosts[index]) ELSE None

\* NetPairList::get(&self, index): self.hosts.get(index), the index counted from 0
get(list, index) ==
    IF index < Len(list.hosts) THEN Some(list.hosts[index + 1]) ELSE None

\* NetPairList::len(&self): self.hosts.len()
len(list) == Len(list.hosts)

LookupInit ==
    /\ FrameworkNew
    /\ search = NoSearch
    /\ lookup \in {[NoLookup EXCEPT !.list = l] : l \in NetPairLists}
    /\ mgr = MgrNew
    /\ capture = NoCapture

\* a caller holding the list calls get(index)
Get ==
    /\ \E index \in 0..(MaxHosts + 1) :
          lookup' = [lookup EXCEPT !.op = "get", !.index = index, !.got = get(lookup.list, index)]
    /\ UNCHANGED <<hosts, names, hooks, modules, spawned, last, search, mgr, capture>>

\* a caller holding the list calls len()
LenOf ==
    /\ lookup' = [lookup EXCEPT !.op = "len", !.n = len(lookup.list)]
    /\ UNCHANGED <<hosts, names, hooks, modules, spawned, last, search, mgr, capture>>

LookupNext == Get \/ LenOf

\* NetPairList::get and NetPairList::len on every list of at most MaxHosts hosts
LookupSpec == LookupInit /\ [][LookupNext]_vars

\* ------------------------------------------------------------------ HostMgr
\* a clone that copies the three values into cells of its own
clone_deep(cells, h) ==
    [cells |-> cells \o <<MutexNew(cells[h.gateway].value),
                          MutexNew(cells[h.myself].value),
                          MutexNew(cells[h.nethosts].value)>>,
     handle |-> [gateway |-> Len(cells) + 1,
                 myself |-> Len(cells) + 2,
                 nethosts |-> Len(cells) + 3]]

\* impl Clone for HostMgr: the three Arcs are cloned, no cell is made
clone(cells, h) == [cells |-> cells, handle |-> h]

\* get_gateway / get_myself / get_nethosts: a clone of the Arc of slot s alone
get_shared(h, s) == [t \in Slots |-> IF t = s THEN h[s] ELSE 0]

\* a lock that lets a second holder in
lock_shared(cells, c, o) ==
    IF cells[c].poisoned THEN "poisoned" ELSE "guard"

\* one lock for the three slots
lock_global(cells, c, o) ==
    IF \E d \in DOMAIN cells : cells[d].holders # {}
    THEN "blocked"
    ELSE IF cells[c].poisoned THEN "poisoned" ELSE "guard"

\* a lock that forgets that a holder panicked
lock_unpoisoned(cells, c, o) ==
    IF cells[c].holders # {} THEN "blocked" ELSE "guard"

\* Mutex::lock on cell c by owner o: blocks while the cell is held, then returns
\* the guard, or a PoisonError if a holder panicked
lock(cells, c, o) ==
    IF cells[c].holders # {}
    THEN "blocked"
    ELSE IF cells[c].poisoned THEN "poisoned" ELSE "guard"

\* a panic that leaves the guards of the thread in place
unwind_keeps_guards(cells, o) == cells

\* the panic of owner o unwinds: each guard it holds is dropped while panicking,
\* which unlocks its cell and poisons it
unwind(cells, o) ==
    [c \in DOMAIN cells |->
        IF o \in cells[c].holders
        THEN [cells[c] EXCEPT !.holders = @ \ {o}, !.poisoned = TRUE]
        ELSE cells[c]]

\* the slots owner o holds the guard of
Held(o) ==
    {s \in Slots : mgr.handles[o][s] # 0 /\ o \in mgr.cells[mgr.handles[o][s]].holders}

\* owner o is a running thread that is not blocked in lock()
Running(o) == o \notin mgr.panicked /\ mgr.waiting[o] = "none"

\* the pair owner o stores into slot s
Stored(o, s) ==
    IF o = "main" THEN HostMgrNew(GatewayPair, MyselfPair)[s] ELSE OtherPair

\* hostmgr.clone() handed to a thread that has no handle yet
Clone(o, from) ==
    /\ mgr.handles[o] = NoHandle
    /\ Running(o) /\ Running(from)
    /\ \A s \in Slots : mgr.handles[from][s] # 0
    /\ LET r == clone(mgr.cells, mgr.handles[from]) IN
          mgr' = [mgr EXCEPT !.cells = r.cells, !.handles[o] = r.handle]
    /\ UNCHANGED <<hosts, names, hooks, modules, spawned, last, search, lookup, capture>>

\* hostmgr.get_gateway() (get_myself, get_nethosts) handed to such a thread
GetShared(o, from, s) ==
    /\ mgr.handles[o] = NoHandle
    /\ Running(o) /\ Running(from)
    /\ \A t \in Slots : mgr.handles[from][t] # 0
    /\ mgr' = [mgr EXCEPT !.handles[o] = get_shared(mgr.handles[from], s)]
    /\ UNCHANGED <<hosts, names, hooks, modules, spawned, last, search, lookup, capture>>

\* acquire_gateway (acquire_myself, acquire_nethosts, or lock() on the shared Arc)
\* is called: the owner is in lock()
Request(o, s) ==
    /\ Running(o)
    /\ mgr.handles[o][s] # 0
    /\ mgr' = [mgr EXCEPT !.waiting[o] = s, !.doubled = @ \/ Held(o) # {}]
    /\ UNCHANGED <<hosts, names, hooks, modules, spawned, last, search, lookup, capture>>

\* lock() returns the guard: .unwrap() hands it to the owner
Acquire(o) ==
    /\ o \notin mgr.panicked
    /\ mgr.waiting[o] # "none"
    /\ LET c == mgr.handles[o][mgr.waiting[o]] IN
          /\ lock(mgr.cells, c, o) = "guard"
          /\ mgr' = [mgr EXCEPT !.cells[c].holders = @ \cup {o}, !.waiting[o] = "none"]
    /\ UNCHANGED <<hosts, names, hooks, modules, spawned, last, search, lookup, capture>>

\* lock() returns Err(PoisonError): .unwrap() panics
AcquirePoisoned(o) ==
    /\ o \notin mgr.panicked
    /\ mgr.waiting[o] # "none"
    /\ lock(mgr.cells, mgr.handles[o][mgr.waiting[o]], o) = "poisoned"
    /\ mgr' = [mgr EXCEPT !.cells = unwind(mgr.cells, o),
                          !.waiting[o] = "none",
                          !.panicked = @ \cup {o}]
    /\ UNCHANGED <<hosts, names, hooks, modules, spawned, last, search, lookup, capture>>

\* lock() on a cell the thread itself holds does not return: it deadlocks (no
\* step) or panics (this step)
Relock(o) ==
    /\ o \notin mgr.panicked
    /\ mgr.waiting[o] # "none"
    /\ o \in mgr.cells[mgr.handles[o][mgr.waiting[o]]].holders
    /\ mgr' = [mgr EXCEPT !.cells = unwind(mgr.cells, o),
                          !.waiting[o] = "none",
                          !.panicked = @ \cup {o}]
    /\ UNCHANGED <<hosts, names, hooks, modules, spawned, last, search, lookup, capture>>

\* *guard = KnownPair::new(..) by the holder of a KnownPair slot
Write(o, s) ==
    /\ Running(o)
    /\ s \in Held(o) \ {"nethosts"}
    /\ mgr' = [mgr EXCEPT !.cells[mgr.handles[o][s]].value = Stored(o, s),
                          !.wrote[s] = Stored(o, s)]
    /\ UNCHANGED <<hosts, names, hooks, modules, spawned, last, search, lookup, capture>>

\* the guard goes out of scope: the cell is unlocked
Release(o, s) ==
    /\ Running(o)
    /\ s \in Held(o)
    /\ mgr' = [mgr EXCEPT !.cells[mgr.handles[o][s]].holders = @ \ {o}]
    /\ UNCHANGED <<hosts, names, hooks, modules, spawned, last, search, lookup, capture>>

\* the owner panics while it holds a guard
Panic(o) ==
    /\ Running(o)
    /\ Held(o) # {}
    /\ mgr' = [mgr EXCEPT !.cells = unwind(mgr.cells, o), !.panicked = @ \cup {o}]
    /\ UNCHANGED <<hosts, names, hooks, modules, spawned, last, search, lookup, capture>>

HostNext ==
    \/ \E o, from \in Owners : Clone(o, from)
    \/ \E o, from \in Owners, s \in Slots : GetShared(o, from, s)
    \/ \E o \in Owners, s \in Slots : Request(o, s)
    \/ \E o \in Owners : Acquire(o)
    \/ \E o \in Owners : AcquirePoisoned(o)
    \/ \E o \in Owners : Relock(o)
    \/ \E o \in Owners, s \in Slots : Write(o, s)
    \/ \E o \in Owners, s \in Slots : Release(o, s)
    \/ \E o \in Owners : Panic(o)

\* the threads sharing one HostMgr
HostSpec == Init /\ [][HostNext]_vars

\* ------------------------------------------------------------------ packet routing
\* the n-th inbound frame: its ethernet header and its payload
Frame(n) == [eth |-> <<"eth", n>>, payload |-> <<"payload", n>>]

\* the view of the frame a filter asks for
slice(filter, frame) ==
    CASE filter = "Entire" -> <<frame.eth, frame.payload>>
      [] filter = "EtherFrame" -> <<frame.eth>>
      [] filter = "Payload" -> <<frame.payload>>

\* a channel of capacity one: send waits while a view is queued
send_rendezvous(chan, v) ==
    IF ~chan.open
    THEN [res |-> "Err", chan |-> chan]
    ELSE IF chan.queue # <<>>
         THEN [res |-> "Blocked", chan |-> chan]
         ELSE [res |-> "Ok", chan |-> [chan EXCEPT !.queue = Append(@, v)]]

\* Sender<Arc<Vec<u8>>>::send: the channel of mpsc::Sender has no capacity limit,
\* so send queues v and returns at once; it fails only when the Receiver is gone
send(chan, v) ==
    IF chan.open
    THEN [res |-> "Ok", chan |-> [chan EXCEPT !.queue = Append(@, v)]]
    ELSE [res |-> "Err", chan |-> chan]

RECURSIVE dispatch(_, _, _)
\* the dispatch loop over the modules in the order keys: Closed is skipped, the
\* other filters get their view sent; a failed send drops the view for that
\* module, a send that does not return holds the loop
dispatch(mods, keys, frame) ==
    IF keys = <<>>
    THEN [mods |-> mods, blocked |-> FALSE]
    ELSE LET k == Head(keys)
             m == mods[k]
         IN  IF m.filter = "Closed"
             THEN dispatch(mods, Tail(keys), frame)
             ELSE LET r == send(m.chan, slice(m.filter, frame)) IN
                  IF r.res = "Blocked"
                  THEN [mods |-> mods, blocked |-> TRUE]
                  ELSE dispatch([mods EXCEPT ![k].chan = r.chan], Tail(keys), frame)

\* the orders a HashMap iterates the modules in
Orders ==
    {o \in {<<a, b, c>> : a, b, c \in Routed} : {o[1], o[2], o[3]} = Routed}

\* every choice of filters of the running modules
CaptureInit ==
    /\ FrameworkNew
    /\ search = NoSearch
    /\ lookup = NoLookup
    /\ mgr = MgrNew
    /\ capture \in {[NoCapture EXCEPT !.mods = [k \in Routed |-> [filter |-> f[k], chan |-> ChannelNew]]] :
                       f \in [Routed -> PackFilter]}

\* the capture loop reads the next frame and routes it
CaptureFrame ==
    /\ ~capture.blocked
    /\ capture.frames < MaxFrames
    /\ \E keys \in Orders :
          LET r == dispatch(capture.mods, keys, Frame(capture.frames + 1)) IN
          capture' = [capture EXCEPT !.mods = r.mods,
                                     !.frames = @ + 1,
                                     !.blocked = r.blocked]
    /\ UNCHANGED <<hosts, names, hooks, modules, spawned, last, search, lookup, mgr>>

\* the worker of module k takes the next view from its Receiver
Recv(k) ==
    /\ capture.mods[k].chan.open
    /\ capture.mods[k].chan.queue # <<>>
    /\ capture' = [capture EXCEPT !.mods[k].chan.queue = Tail(@)]
    /\ UNCHANGED <<hosts, names, hooks, modules, spawned, last, search, lookup, mgr>>

\* the worker of module k exits: its Receiver is dropped with what it queued
Stop(k) ==
    /\ capture.mods[k].chan.open
    /\ capture' = [capture EXCEPT !.mods[k].chan = [queue |-> <<>>, open |-> FALSE]]
    /\ UNCHANGED <<hosts, names, hooks, modules, spawned, last, search, lookup, mgr>>

CaptureNext ==
    \/ CaptureFrame
    \/ \E k \in Routed : Recv(k)
    \/ \E k \in Routed : Stop(k)

\* the capture loop and the workers of the modules it routes frames to
CaptureSpec == CaptureInit /\ [][CaptureNext]_vars

\* ------------------------------------------------------------------ workers
\* the thread behind Module.handle returns its Result<(), String>
WorkerExit(key) ==
    /\ modules[key].worker = "Running"
    /\ modules' = [modules EXCEPT ![key].worker = "Stopped"]
    /\ last' = Called("worker", key, NoLib, NoCall, NoHook, Ok(TRUE))
    /\ UNCHANGED <<hosts, names, hooks, spawned, others>>

\* ------------------------------------------------------------------ specification
\* the Framework's operations, called one at a time (each takes &mut self)
Control ==
    \/ \E name \in HookNames : HookUp(name, CoreHook)
    \/ \E lib \in Libraries : LoadHooksFrom(lib)
    \/ \E name \in CallNames, call \in Calls : TryRunHook(name, call)

\* the worker threads of the registered modules
Workers == \E key \in DOMAIN modules : WorkerExit(key)

Next == Control \/ Workers

Spec == Init /\ [][Next]_vars

\* the operating system schedules every thread that can run
FairSpec == Spec /\ WF_vars(Next)

\* the Framework's operations while the workers keep running
ControlSpec == Init /\ [][Control]_vars

\* ------------------------------------------------------------------ properties
Range(seq) == {seq[i] : i \in 1..Len(seq)}

\* the last operation was try_run_hook and it called a hook
RanHook == last.op = "try_run_hook" /\ last.hook # NoHook
\* the last operation was try_run_hook and its hook returned a module
RanModule == RanHook /\ last.call.out = "module"

\* every registered module was returned by an invocation of hook "scan"
OnlyScan == \A k \in DOMAIN modules : modules[k].handle.hook = "scan"

\* the key of the n-th instance of a hook when suffixes count up: name, name_0, name_1, ...
NthKey(name, n) == IF n = 1 THEN name ELSE name \o "_" \o ToString(n - 2)

\* C1: with only instances of hook "scan" running, the n-th module-producing
\* invocation of "scan" registers its module under "scan" (n = 1) or
\* "scan_<n-2>" (n > 1), and try_run_hook returns Ok(true).
C1_ScanKeysCountUp ==
    /\ RanModule => last.res = Ok(TRUE)
    /\ OnlyScan =>
         \A k \in DOMAIN modules : k = NthKey("scan", modules[k].handle.thread)

\* C2: a try_run_hook call whose hook returns a module inserts it under a key that
\* was not in the module registry: the registry grows by exactly one entry and every
\* key registered before is still bound to the same module.
C2_ModuleInsertedUnderFreshKey ==
    [][(RanModule)' =>
          /\ last'.res = Ok(TRUE)
          /\ \E k \in DOMAIN modules' :
                /\ k \notin DOMAIN modules
                /\ DOMAIN modules' = DOMAIN modules \cup {k}
                /\ modules'[k].handle.thread \notin
                       {modules[j].handle.thread : j \in DOMAIN modules}
          /\ Cardinality(DOMAIN modules') = Cardinality(DOMAIN modules) + 1
          /\ \A j \in DOMAIN modules : modules'[j] = modules[j]]_vars

\* a module was registered while its hook's own name and a suffixed key were in use
C2_Witness ==
    /\ RanModule
    /\ last.name = "scan_0"
    /\ \E k \in DOMAIN modules :
          /\ modules[k].handle = [hook |-> "scan_0", thread |-> spawned]
          /\ k # "scan_0"
    /\ modules["scan_0"].handle.hook = "scan"

\* C3: hook_up(X, h) for a bound name X returns an error and changes neither the
\* hook registry nor the name list, and try_run_hook(X) calls the hook X is bound to.
C3_HookUpCollisionChangesNothing ==
    [][/\ (last'.op = "hook_up" /\ contains_key(hooks, last'.name)) =>
             /\ last'.res = Err(<<>>)
             /\ hooks' = hooks
             /\ names' = names
       /\ (last'.op = "hook_up" /\ last'.res.tag = "Err") =>
             /\ contains_key(hooks, last'.name)
             /\ hooks' = hooks
             /\ names' = names
       /\ (last'.op = "try_run_hook" /\ contains_key(hooks, last'.name)) =>
             last'.hook = hooks[last'.name]]_vars

\* hook_up was refused for a name a library had bound to another hook
C3_Witness ==
    /\ last.op = "hook_up"
    /\ last.res.tag = "Err"
    /\ hooks[last.name] # last.hook
    /\ Len(names) = Cardinality(DOMAIN hooks)

\* entry i of a batch meets a bound name: bound before the batch, or by an earlier entry
Collides(hk, entries, i) ==
    \/ contains_key(hk, entries[i].name)
    \/ \E j \in 1..(i - 1) : entries[j].name = entries[i].name

\* the positions of a batch whose entries collide, in batch order
Colliding(hk, entries) ==
    LET sel(i) == Collides(hk, entries, i) IN
    SelectSeq([i \in 1..Len(entries) |-> i], sel)

\* the last operation loaded a library whose entry point resolved
Loaded == last.op = "load_hooks_from" /\ last.lib.resolves

\* C4: load_hooks_from does not stop at a collision: every entry of the batch whose
\* name was unbound when it was reached is bound to that entry's hook and listed in
\* the name list when the call returns, whatever the call returns.
C4_BatchRegistersAllUnbound ==
    [][Loaded' =>
          \A i \in 1..Len(last'.lib.entries) :
             ~Collides(hooks, last'.lib.entries, i) =>
                /\ contains_key(hooks', last'.lib.entries[i].name)
                /\ hooks'[last'.lib.entries[i].name] = last'.lib.entries[i].hook
                /\ last'.lib.entries[i].name \in Range(names')
                /\ last'.lib.entries[i].name \notin Range(names)]_vars

\* a batch whose first entry collided returned an error and bound its last entry
C4_Witness ==
    /\ Loaded
    /\ last.res.tag = "Err"
    /\ Len(last.lib.entries) = 3
    /\ hooks[last.lib.entries[1].name] # last.lib.entries[1].hook
    /\ last.lib.entries[3].name # last.lib.entries[1].name
    /\ hooks[last.lib.entries[3].name] = last.lib.entries[3].hook
    /\ names[Len(names)] = last.lib.entries[3].name

\* C5: for a library whose entry point resolves, load_hooks_from returns Ok exactly
\* when no entry collided, and otherwise the list of one "<name> already bound"
\* message per colliding entry, in batch order.
C5_OneMessagePerCollision ==
    [][Loaded' =>
          LET entries == last'.lib.entries
              hit == Colliding(hooks, entries)
          IN  /\ (last'.res = Ok(TRUE)) <=> (hit = <<>>)
              /\ last'.res.tag = "Err" =>
                    /\ Len(last'.res.errs) = Len(hit)
                    /\ \A k \in 1..Len(hit) :
                          last'.res.errs[k] = entries[hit[k]].name \o " already bound"]_vars

\* a batch repeated a name: two collisions reported, on different names
C5_Witness ==
    /\ Loaded
    /\ Len(last.res.errs) = 2
    /\ last.res.errs[1] # last.res.errs[2]
    /\ last.lib.entries[1].name = last.lib.entries[3].name
    /\ hooks[last.lib.entries[1].name] = last.lib.entries[1].hook

\* C6: when the entry point does not resolve, load_hooks_from returns the single
\* error of the failed resolution and leaves the hook registry, the name list and the
\* module registry as they were; a batch that collides returns only
\* "<name> already bound" messages, which the resolution error is not.
C6_UnresolvedLoadRegistersNothing ==
    [][/\ (last'.op = "load_hooks_from" /\ ~last'.lib.resolves) =>
             /\ last'.res = Err(<<last'.lib.error>>)
             /\ last'.lib.error \notin {n \o " already bound" : n \in HookNames}
             /\ hooks' = hooks
             /\ names' = names
             /\ modules' = modules
       /\ (Loaded' /\ last'.res.tag = "Err") =>
             /\ \A k \in 1..Len(last'.res.errs) :
                   last'.res.errs[k] \in {n \o " already bound" : n \in HookNames}
             /\ \A i \in 1..Len(last'.lib.entries) :
                   contains_key(hooks', last'.lib.entries[i].name)]_vars

\* a library holding an unbound hook but no entry point was loaded into a Framework
\* holding hooks and modules
C6_Witness ==
    /\ last.op = "load_hooks_from"
    /\ ~last.lib.resolves
    /\ last.res.tag = "Err"
    /\ last.lib.entries # <<>>
    /\ ~contains_key(hooks, last.lib.entries[1].name)
    /\ names # <<>>
    /\ DOMAIN modules # {}

\* C7: try_run_hook(name) for a name with no bound hook returns the error
\* "<name>: No such hook", calls no hook, and leaves the hook registry, the name
\* list, the module registry and the HostMgr slots unchanged.
C7_UnknownHookChangesNothing ==
    [][(last'.op = "try_run_hook" /\ ~contains_key(hooks, last'.name)) =>
          /\ last'.res = Err(<<last'.name \o ": No such hook">>)
          /\ last'.hook = NoHook
          /\ hooks' = hooks
          /\ names' = names
          /\ modules' = modules
          /\ spawned' = spawned
          /\ hosts' = hosts]_vars

\* "scan" was run unbound while modules of hook "scan_0" held the keys "scan_0"
\* and "scan_0_0"
C7_Witness ==
    /\ last.op = "try_run_hook"
    /\ last.name = "scan"
    /\ last.res.tag = "Err"
    /\ ~contains_key(hooks, "scan")
    /\ contains_key(modules, "scan_0")
    /\ contains_key(modules, "scan_0_0")

\* C8: when the invoked hook fails, try_run_hook returns the hook's message,
\* unmodified, and the module registry, the hook registry and the name list are as
\* before the call, so that every later invocation does what it would have done
\* before the failure.
C8_HookErrorPassedThrough ==
    [][(RanHook' /\ last'.call.out = "err") =>
          /\ last'.res = Err(<<last'.call.msg>>)
          /\ modules' = modules
          /\ spawned' = spawned
          /\ hooks' = hooks
          /\ names' = names
          /\ \A n \in CallNames, c \in Calls :
                try_run_hook(hosts', hooks', modules', spawned', n, c)
                    = try_run_hook(hosts, hooks, modules, spawned, n, c)]_vars

\* a hook failed while modules were registered
C8_Witness ==
    /\ RanHook
    /\ last.call.out = "err"
    /\ last.res = Err(<<HookError>>)
    /\ DOMAIN modules # {}

\* C9: when the invoked hook returns success with no module, try_run_hook returns
\* Ok(false) and the module registry is unchanged, whichever the hook's scope; if the
\* hook only read the HostMgr slots, they hold the same values as before.
C9_NoModuleReturnsFalse ==
    [][(RanHook' /\ last'.call.out = "none") =>
          /\ last'.res = Ok(FALSE)
          /\ modules' = modules
          /\ spawned' = spawned
          /\ last'.call.eff = "read" => hosts' = hosts]_vars

\* a host-scoped hook read the pairs and returned no module while modules were
\* registered
C9_Witness ==
    /\ RanHook
    /\ last.call = [out |-> "none", eff |-> "read", msg |-> ""]
    /\ last.hook.scope = "HostMgr"
    /\ last.res = Ok(FALSE)
    /\ hosts.gateway = GatewayPair
    /\ hosts.myself = MyselfPair
    /\ DOMAIN modules # {}

\* no key of the module registry refers to a module whose worker has exited
NoStoppedRegistered == \A k \in DOMAIN modules : modules[k].worker # "Stopped"

\* C10: a module whose worker has exited is eventually removed from the module
\* registry, and a module leaves Running only after its owner sent a stop request
\* on its killer channel.
C10_StoppedModulesRemoved ==
    /\ []<>NoStoppedRegistered
    /\ [][\A k \in DOMAIN modules :
            (modules[k].worker = "Running" /\ k \in DOMAIN modules'
                /\ modules'[k].worker # "Running") => modules[k].killer > 0]_vars

\* the names a batch binds, in the order it binds them
FirstBound(hk, entries) ==
    LET fresh(i) == ~Collides(hk, entries, i)
        at == SelectSeq([i \in 1..Len(entries) |-> i], fresh)
    IN  [k \in 1..Len(at) |-> entries[at[k]].name]

\* seq is a prefix of longer
IsPrefix(seq, longer) ==
    /\ Len(seq) <= Len(longer)
    /\ \A i \in 1..Len(seq) : longer[i] = seq[i]

\* C18: the name list holds no name twice and exactly the keys of the hook
\* registry; every operation leaves the names it held in place and in order (new
\* names are appended behind them, in the order they were bound) and every bound
\* hook bound as it was; try_run_hook changes neither.
C18_NamesMirrorHooks ==
    /\ [](/\ Cardinality(Range(names)) = Len(names)
          /\ Range(names) = DOMAIN hooks)
    /\ [][/\ IsPrefix(names, names')
          /\ \A n \in DOMAIN hooks : n \in DOMAIN hooks' /\ hooks'[n] = hooks[n]
          /\ \A i \in (Len(names) + 1)..Len(names') : names'[i] \notin DOMAIN hooks
          /\ last'.op = "hook_up" =>
                names' = IF last'.name \in DOMAIN hooks
                         THEN names
                         ELSE names \o <<last'.name>>
          /\ Loaded' => names' = names \o FirstBound(hooks, last'.lib.entries)
          /\ last'.op = "try_run_hook" => (names' = names /\ hooks' = hooks)]_vars

\* both names are bound, "scan_0" first, and hooks were run since
C18_Witness ==
    /\ names = <<"scan_0", "scan">>
    /\ DOMAIN hooks = {"scan", "scan_0"}
    /\ last.op = "try_run_hook"
    /\ DOMAIN modules # {}

\* the registry the running key loop started from
SearchedIn ==
    IF search.pc = "done"
    THEN [k \in DOMAIN search.mods \ {search.name} |-> search.mods[k]]
    ELSE search.mods

\* C19: for a module registry of n entries the key loop of try_run_hook tests at
\* most n + 1 candidate keys, no candidate twice, every candidate before the last is
\* a key of the registry, and the loop ends on a key that is not: the key the
\* module is inserted under.
C19_KeyLoopTerminates ==
    search.pc # "idle" =>
       LET n == Cardinality(DOMAIN SearchedIn)
           tried == search.tried
       IN  /\ Len(tried) <= n + 1
           /\ Cardinality(Range(tried)) = Len(tried)
           /\ \A i \in 1..Len(tried) :
                 (i < Len(tried) \/ search.pc = "while") => tried[i] \in DOMAIN SearchedIn
           /\ search.pc = "while" => search.name \notin Range(tried)
           /\ search.pc \in {"insert", "done"} =>
                 /\ tried[Len(tried)] = search.name
                 /\ search.name \notin DOMAIN SearchedIn
                 /\ search.name = unused_key(SearchedIn, tried[1], 0)
           /\ search.pc = "done" =>
                 /\ search.name \in DOMAIN search.mods
                 /\ Cardinality(DOMAIN search.mods) = n + 1

\* the loop tested as many candidates as the registry allows: all its three keys,
\* "scan_0" and "scan_0_1" among them, and ended on a fourth
C19_Witness ==
    /\ search.pc = "done"
    /\ Len(search.tried) = 4
    /\ search.tried[1] = "scan"
    /\ search.tried[3] = "scan_0_1"
    /\ Cardinality(DOMAIN search.mods) = 4

\* C16: NetPairList::get(i) is the i-th host (counted from 0) of the host sequence
\* for every i < len() and nothing for every i >= len(), on the empty list of a new
\* HostMgr too; len() is the length of the host sequence.
C16_GetIsIndexedLookup ==
    LET h == lookup.list.hosts IN
    /\ lookup.op = "get" =>
          /\ lookup.index < len(lookup.list) =>
                lookup.got = Some(h[lookup.index + 1])
          /\ lookup.index >= len(lookup.list) => lookup.got = None
          /\ lookup.list = NetPairListNew => lookup.got = None
    /\ lookup.op = "len" =>
          /\ lookup.n = Len(h)
          /\ lookup.list = NetPairListNew => lookup.n = 0

\* get(2) on a list of three different hosts returned the last of them
C16_Witness ==
    /\ lookup.op = "get"
    /\ lookup.list.hosts = <<"10.0.0.2", "10.0.0.3", "10.0.0.4">>
    /\ lookup.index = 2
    /\ lookup.got = Some("10.0.0.4")

\* the cell the handle of owner o points to for slot s
CellOf(o, s) == mgr.cells[mgr.handles[o][s]]

\* owner o is in lock() for a slot
Waiting(o) == o \notin mgr.panicked /\ mgr.waiting[o] # "none"

\* the lock() owner o is in can return, with the guard or with a PoisonError
CanReturn(o) == ENABLED (Acquire(o) \/ AcquirePoisoned(o))

\* C11: every handle, cloned from a HostMgr or got from get_gateway, get_myself or
\* get_nethosts, points to the same three cells HostMgr::new made; the value any
\* handle finds in a slot is the value last stored in that slot through whichever
\* handle, so no handle has a copy of its own.
C11_ClonesAliasCells ==
    /\ Len(mgr.cells) = Len(MgrNew.cells)
    /\ \A o \in Owners, s \in Slots :
          mgr.handles[o][s] # 0 =>
             /\ mgr.handles[o][s] = MgrNew.handles["main"][s]
             /\ CellOf(o, s).value = mgr.wrote[s]

\* the main thread holds the gateway guard and finds the pair the module's worker
\* stored through its clone, the only other handle there is
C11_Witness ==
    /\ mgr.handles["module"] = MgrNew.handles["main"]
    /\ mgr.handles["hook"] = NoHandle
    /\ Held("main") = {"gateway"}
    /\ Held("module") = {}
    /\ CellOf("main", "gateway").value = OtherPair

\* C12: in every reachable state each cell has at most one holder, whichever
\* handles the owners use, and a step that changes the value of a cell is taken
\* while exactly one owner holds it, who still holds it after the step.
C12_OneHolderPerSlot ==
    /\ [](\A c \in DOMAIN mgr.cells : Cardinality(mgr.cells[c].holders) <= 1)
    /\ [][\A c \in DOMAIN mgr.cells :
            mgr'.cells[c].value # mgr.cells[c].value =>
               /\ Cardinality(mgr.cells[c].holders) = 1
               /\ mgr'.cells[c].holders = mgr.cells[c].holders]_vars

\* the module's worker holds the gateway slot and has stored its pair in it while
\* the main thread is in lock() for the same slot
C12_Witness ==
    /\ Held("module") = {"gateway"}
    /\ Waiting("main") /\ mgr.waiting["main"] = "gateway"
    /\ CellOf("main", "gateway").value = OtherPair

\* C13: an owner in lock() for a slot is blocked exactly while some owner holds
\* that slot, whatever other slots are held.
C13_SlotLocksIndependent ==
    \A o \in Owners :
       Waiting(o) => (~CanReturn(o) <=> CellOf(o, mgr.waiting[o]).holders # {})

\* the module's worker holds the gateway slot while the hook holds the hosts slot
C13_Witness ==
    /\ Held("module") = {"gateway"}
    /\ Held("hook") = {"nethosts"}

\* C15: a poisoned cell stays poisoned and is never held again, an owner in lock()
\* for a poisoned cell panics instead of getting the guard, and a cell becomes
\* poisoned only by the panic of its holder, so the slots the panicking owner did
\* not hold stay usable.
C15_PoisonIsPermanent ==
    /\ [](\A o \in Owners :
            (Waiting(o) /\ CellOf(o, mgr.waiting[o]).poisoned
                        /\ CellOf(o, mgr.waiting[o]).holders = {})
               => (ENABLED AcquirePoisoned(o) /\ ~ENABLED Acquire(o)))
    /\ [][\A c \in DOMAIN mgr.cells :
            /\ mgr.cells[c].poisoned =>
                  /\ mgr'.cells[c].poisoned
                  /\ mgr'.cells[c].holders \subseteq mgr.cells[c].holders
            /\ (~mgr.cells[c].poisoned /\ mgr'.cells[c].poisoned) =>
                  \E o \in mgr.cells[c].holders : o \in mgr'.panicked \ mgr.panicked]_vars

\* the gateway slot alone is poisoned; the module's worker and the hook have both
\* panicked, the later of them in acquire of the gateway slot; the main thread
\* holds the myself slot
C15_Witness ==
    /\ mgr.panicked = {"module", "hook"}
    /\ \A s \in Slots : CellOf("main", s).poisoned <=> s = "gateway"
    /\ Held("main") = {"myself"}

\* owners o1 and o2 each hold one slot and are in lock() for the slot of the other
CrossWait(o1, o2, s1, s2) ==
    /\ o1 # o2 /\ s1 # s2
    /\ Waiting(o1) /\ Waiting(o2)
    /\ s1 \in Held(o1) /\ mgr.waiting[o1] = s2
    /\ s2 \in Held(o2) /\ mgr.waiting[o2] = s1

\* C17: as long as no owner has asked for a slot while holding one, every owner
\* blocked in lock() waits for a cell whose holder is running and can release it;
\* two owners each holding one slot and in lock() for the other's slot stay so
\* for ever.
C17_NoDeadlockOneSlotAtATime ==
    /\ [](~mgr.doubled =>
            \A o \in Owners :
               (Waiting(o) /\ ~CanReturn(o)) =>
                  \E h \in CellOf(o, mgr.waiting[o]).holders :
                     Running(h) /\ ENABLED Release(h, mgr.waiting[o]))
    /\ [][\A o1, o2 \in Owners, s1, s2 \in Slots :
            CrossWait(o1, o2, s1, s2) => CrossWait(o1, o2, s1, s2)']_vars

\* the module's worker holds the gateway slot and waits for the hosts slot, the
\* hook holds the hosts slot and waits for the gateway slot
C17_Witness == CrossWait("module", "hook", "gateway", "nethosts")

\* the consumer of module k is slow (a view is still queued) or has stopped
SlowOrStopped(k) ==
    ~capture.mods[k].chan.open \/ capture.mods[k].chan.queue # <<>>

\* C14 as claimed: routing a frame never blocks, the frame is dropped for every
\* module whose consumer is slow or has stopped, and every other module with a
\* filter other than Closed gets its view of it.
C14_SlowOrStoppedDropped ==
    [][capture'.frames # capture.frames =>
          /\ ~capture'.blocked
          /\ \A k \in Routed :
                LET m == capture.mods[k] IN
                m.filter # "Closed" =>
                   capture'.mods[k].chan.queue =
                      IF SlowOrStopped(k)
                      THEN m.chan.queue
                      ELSE Append(m.chan.queue, slice(m.filter, Frame(capture'.frames)))]_vars

\* C14 amended: routing a frame never blocks and the next frame can always be
\* captured; the frame is dropped only for the modules whose consumer has stopped,
\* a Closed module gets nothing, and every other module, slow or not, gets its
\* view of the frame queued behind what it has not yet taken.
C14_DeliveryNeverBlocks ==
    /\ [](/\ ~capture.blocked
          /\ capture.frames < MaxFrames => ENABLED CaptureFrame)
    /\ [][capture'.frames # capture.frames =>
            \A k \in Routed :
               LET m == capture.mods[k] IN
               capture'.mods[k] =
                  IF m.filter = "Closed" \/ ~m.chan.open
                  THEN m
                  ELSE [m EXCEPT !.chan.queue =
                           Append(@, slice(m.filter, Frame(capture'.frames)))]]_vars

\* two frames were routed: m1 had stopped and got none, the slow m2 has both its
\* header views queued, m3 took the first payload and has the second queued
C14_Witness ==
    /\ capture.frames = 2
    /\ capture.mods["m1"] = [filter |-> "Entire", chan |-> [queue |-> <<>>, open |-> FALSE]]
    /\ capture.mods["m2"].filter = "EtherFrame"
    /\ capture.mods["m2"].chan.queue = <<slice("EtherFrame", Frame(1)), slice("EtherFrame", Frame(2))>>
    /\ capture.mods["m3"].filter = "Payload"
    /\ capture.mods["m3"].chan.queue = <<slice("Payload", Frame(2))>>

====
